---------------------------- MODULE Spec2Model ----------------------------
(***************************************************************************)
(* Model of pkg/webhooks/admission/jobs/validate/util.go: the lifecycle    *)
(* policy validator (validatePolicies), the event merge helper             *)
(* (getEventList / removeDuplicates), the allow-list enumerators           *)
(* (getValidEvents / getValidActions) and the volume validator             *)
(* (validateIO).                                                           *)
(*                                                                         *)
(* Every call runs in a goroutine with its own frame; the two allow-list   *)
(* tables are the only package-level state.  A nil error is the empty      *)
(* sequence, a non-nil error is the sequence of its causes.  A nil         *)
(* pointer is the empty sequence, a non-nil pointer the one-element         *)
(* sequence holding the value pointed to.  A slice is a record of its      *)
(* backing array and its length; its capacity is the length of the         *)
(* backing array.                                                          *)
(***************************************************************************)
EXTENDS Integers, Sequences, FiniteSets, TLC

VARIABLES policyEventMap, policyActionMap, call, frame

vars == <<policyEventMap, policyActionMap, call, frame>>

(***************************************************************************)
(* Bounds of the model.                                                    *)
(***************************************************************************)
MaxPolicies == 2

MaxVolumes == 3

MaxCap == 3

Procs == {"g1", "g2"}

(***************************************************************************)
(* Event and Action values (batchv1alpha1).                                *)
(***************************************************************************)
AnyEvent == "*"

PodFailedEvent == "PodFailed"

PodEvictedEvent == "PodEvicted"

JobUnknownEvent == "Unknown"

TaskCompletedEvent == "TaskCompleted"

OutOfSyncEvent == "OutOfSync"

CommandIssuedEvent == "CommandIssued"

AbortJobAction == "AbortJob"

RestartJobAction == "RestartJob"

RestartTaskAction == "RestartTask"

TerminateJobAction == "TerminateJob"

CompleteJobAction == "CompleteJob"

ResumeJobAction == "ResumeJob"

SyncJobAction == "SyncJob"

EnqueueAction == "EnqueueJob"

\* A value of type Event / Action that is a key of neither table.
UnknownName == "Bogus"

\* The initial contents of policyEventMap.
PolicyEventTable ==
    (AnyEvent :> TRUE) @@ (PodFailedEvent :> TRUE) @@ (PodEvictedEvent :> TRUE)
    @@ (JobUnknownEvent :> TRUE) @@ (TaskCompletedEvent :> TRUE)
    @@ (OutOfSyncEvent :> FALSE) @@ (CommandIssuedEvent :> FALSE)

\* The initial contents of policyActionMap.
PolicyActionTable ==
    (AbortJobAction :> TRUE) @@ (RestartJobAction :> TRUE)
    @@ (RestartTaskAction :> TRUE) @@ (TerminateJobAction :> TRUE)
    @@ (CompleteJobAction :> TRUE) @@ (ResumeJobAction :> TRUE)
    @@ (SyncJobAction :> FALSE) @@ (EnqueueAction :> FALSE)

(***************************************************************************)
(* Values.                                                                 *)
(***************************************************************************)
Nil == <<>>

Ptr(v) == <<v>>

Slice(arr, len) == [arr |-> arr, len |-> len]

\* The elements of a slice that the program can see.
Visible(s) == SubSeq(s.arr, 1, s.len)

LifecyclePolicy(events, event, exitCode, action) ==
    [Events |-> events, Event |-> event, ExitCode |-> exitCode, Action |-> action]

VolumeSpec(mountPath, volumeClaim, volumeClaimName) ==
    [MountPath |-> mountPath, VolumeClaim |-> volumeClaim,
     VolumeClaimName |-> volumeClaimName]

\* One cause of the error validatePolicies returns.
PolicyError(kind, event, action, code) ==
    [kind |-> kind, event |-> event, action |-> action, code |-> code]

\* The error validateIO returns.
IOError(kind, path, name) == [kind |-> kind, path |-> path, name |-> name]

Range(s) == {s[k] : k \in 1..Len(s)}

(***************************************************************************)
(* getEventList and removeDuplicates.                                      *)
(***************************************************************************)
\* append(s, v): in place when the backing array has room, else on a copy.
AppendSlice(s, v) ==
    IF s.len < Len(s.arr)
    THEN Slice([s.arr EXCEPT ![s.len + 1] = v], s.len + 1)
    ELSE Slice(Append(Visible(s), v), s.len + 1)

RECURSIVE RemoveDuplicatesLoop(_, _, _, _)
RemoveDuplicatesLoop(EventList, k, keys, list) ==
    IF k > Len(EventList) THEN list
    ELSE IF EventList[k] \notin keys
         THEN RemoveDuplicatesLoop(EventList, k + 1, keys \cup {EventList[k]},
                                   Append(list, EventList[k]))
         ELSE RemoveDuplicatesLoop(EventList, k + 1, keys, list)

removeDuplicates(EventList) == RemoveDuplicatesLoop(EventList, 1, {}, <<>>)

\* policyEventsList that appends Event even when it is empty.
policyEventsList_AlwaysAppends(policy) == AppendSlice(policy.Events, policy.Event)

\* The slice getEventList hands to removeDuplicates.
policyEventsList(policy) ==
    IF policy.Event # "" THEN AppendSlice(policy.Events, policy.Event)
    ELSE policy.Events

\* The backing array of policy.Events after the call: append writes into it
\* when it has spare capacity.
EventsArrayAfter(policy) ==
    IF policy.Event # "" /\ policy.Events.len < Len(policy.Events.arr)
    THEN policyEventsList(policy).arr
    ELSE policy.Events.arr

getEventList(policy) == removeDuplicates(Visible(policyEventsList(policy)))


(***************************************************************************)
(* Call frames.  kind names the function called, pc the place the call has *)
(* reached; the other fields are the function's parameters and locals.     *)
(***************************************************************************)
NewFrame(kind, pc, policies, volumes) ==
    [kind |-> kind, pc |-> pc, policies |-> policies, volumes |-> volumes,
     i |-> 1, list |-> <<>>, j |-> 1, err |-> <<>>,
     policyEvents |-> {}, exitCodes |-> {}, volumeMap |-> {},
     visited |-> {}, out |-> <<>>, ret |-> <<>>]

IdleFrame == NewFrame("idle", "done", <<>>, <<>>)

ValidatePoliciesFrame(policies) == NewFrame("validatePolicies", "loop", policies, <<>>)

ValidateIOFrame(volumes) == NewFrame("validateIO", "loop", <<>>, volumes)

GetEventListFrame(policy) == NewFrame("getEventList", "append", <<policy>>, <<>>)

GetValidEventsFrame == NewFrame("getValidEvents", "range", <<>>, <<>>)

GetValidActionsFrame == NewFrame("getValidActions", "range", <<>>, <<>>)

(***************************************************************************)
(* validatePolicies.                                                       *)
(***************************************************************************)
\* Leaving the outer loop by break, with one more cause appended.
BreakWith(f, e) == [f EXCEPT !.err = Append(@, e), !.pc = "wildcard"]

\* VPPolicy without the check that rejects exit code 0.
VPPolicy_AcceptsZero(f) ==
    IF f.i > Len(f.policies) THEN [f EXCEPT !.pc = "wildcard"]
    ELSE LET policy == f.policies[f.i]
             hasEvent == policy.Event # "" \/ policy.Events.len # 0
         IN IF hasEvent /\ policy.ExitCode # Nil
            THEN BreakWith(f, PolicyError("must not specify event and exitCode simultaneously", "", "", 0))
            ELSE IF ~hasEvent /\ policy.ExitCode = Nil
            THEN BreakWith(f, PolicyError("either event and exitCode should be specified", "", "", 0))
            ELSE IF hasEvent
            THEN [f EXCEPT !.policies[f.i].Events.arr = EventsArrayAfter(policy),
                           !.list = getEventList(policy),
                           !.j = 1,
                           !.pc = "events"]
            ELSE LET code == policy.ExitCode[1]
                 IN IF code \in f.exitCodes
                    THEN BreakWith(f, PolicyError("duplicate exitCode", "", "", code))
                    ELSE [f EXCEPT !.exitCodes = @ \cup {code}, !.i = @ + 1]

\* VPPolicy that goes on to the next policy after the event-and-exitCode
\* violation instead of leaving the loop.
VPPolicy_NoBreakOnBoth(f) ==
    IF f.i > Len(f.policies) THEN [f EXCEPT !.pc = "wildcard"]
    ELSE LET policy == f.policies[f.i]
             hasEvent == policy.Event # "" \/ policy.Events.len # 0
         IN IF hasEvent /\ policy.ExitCode # Nil
            THEN [f EXCEPT !.err = Append(@, PolicyError("must not specify event and exitCode simultaneously", "", "", 0)),
                           !.i = @ + 1]
            ELSE IF ~hasEvent /\ policy.ExitCode = Nil
            THEN BreakWith(f, PolicyError("either event and exitCode should be specified", "", "", 0))
            ELSE IF hasEvent
            THEN [f EXCEPT !.policies[f.i].Events.arr = EventsArrayAfter(policy),
                           !.list = getEventList(policy),
                           !.j = 1,
                           !.pc = "events"]
            ELSE LET code == policy.ExitCode[1]
                 IN IF code = 0
                    THEN BreakWith(f, PolicyError("0 is not a valid error code", "", "", 0))
                    ELSE IF code \in f.exitCodes
                    THEN BreakWith(f, PolicyError("duplicate exitCode", "", "", code))
                    ELSE [f EXCEPT !.exitCodes = @ \cup {code}, !.i = @ + 1]

\* VPPolicy that checks the Action on the exit-code branch too.
VPPolicy_ExitCodeChecksAction(f) ==
    IF f.i > Len(f.policies) THEN [f EXCEPT !.pc = "wildcard"]
    ELSE LET policy == f.policies[f.i]
             hasEvent == policy.Event # "" \/ policy.Events.len # 0
         IN IF hasEvent /\ policy.ExitCode # Nil
            THEN BreakWith(f, PolicyError("must not specify event and exitCode simultaneously", "", "", 0))
            ELSE IF ~hasEvent /\ policy.ExitCode = Nil
            THEN BreakWith(f, PolicyError("either event and exitCode should be specified", "", "", 0))
            ELSE IF hasEvent
            THEN [f EXCEPT !.policies[f.i].Events.arr = EventsArrayAfter(policy),
                           !.list = getEventList(policy),
                           !.j = 1,
                           !.pc = "events"]
            ELSE LET code == policy.ExitCode[1]
                 IN IF policy.Action \notin DOMAIN PolicyActionTable
                       \/ ~PolicyActionTable[policy.Action]
                    THEN BreakWith(f, PolicyError("invalid policy action", "", policy.Action, 0))
                    ELSE IF code = 0
                    THEN BreakWith(f, PolicyError("0 is not a valid error code", "", "", 0))
                    ELSE IF code \in f.exitCodes
                    THEN BreakWith(f, PolicyError("duplicate exitCode", "", "", code))
                    ELSE [f EXCEPT !.exitCodes = @ \cup {code}, !.i = @ + 1]

\* One pass through the head of the outer loop: the field checks, then
\* either the call of getEventList or the whole exit-code branch.
VPPolicy(f) ==
    IF f.i > Len(f.policies) THEN [f EXCEPT !.pc = "wildcard"]
    ELSE LET policy == f.policies[f.i]
             hasEvent == policy.Event # "" \/ policy.Events.len # 0
         IN IF hasEvent /\ policy.ExitCode # Nil
            THEN BreakWith(f, PolicyError("must not specify event and exitCode simultaneously", "", "", 0))
            ELSE IF ~hasEvent /\ policy.ExitCode = Nil
            THEN BreakWith(f, PolicyError("either event and exitCode should be specified", "", "", 0))
            ELSE IF hasEvent
            THEN [f EXCEPT !.policies[f.i].Events.arr = EventsArrayAfter(policy),
                           !.list = getEventList(policy),
                           !.j = 1,
                           !.pc = "events"]
            ELSE LET code == policy.ExitCode[1]
                 IN IF code = 0
                    THEN BreakWith(f, PolicyError("0 is not a valid error code", "", "", 0))
                    ELSE IF code \in f.exitCodes
                    THEN BreakWith(f, PolicyError("duplicate exitCode", "", "", code))
                    ELSE [f EXCEPT !.exitCodes = @ \cup {code}, !.i = @ + 1]

\* VPEvent that checks the Action before the event.
VPEvent_ActionFirst(f, eventMap, actionMap) ==
    IF f.j > Len(f.list)
    THEN [f EXCEPT !.i = @ + 1, !.list = <<>>, !.j = 1, !.pc = "loop"]
    ELSE LET event == f.list[f.j]
             action == f.policies[f.i].Action
         IN IF action \notin DOMAIN actionMap \/ ~actionMap[action]
            THEN BreakWith(f, PolicyError("invalid policy action", "", action, 0))
            ELSE IF event \notin DOMAIN eventMap \/ ~eventMap[event]
            THEN BreakWith(f, PolicyError("invalid policy event", event, "", 0))
            ELSE IF event \in f.policyEvents
            THEN BreakWith(f, PolicyError("duplicate event across different policy", event, "", 0))
            ELSE [f EXCEPT !.policyEvents = @ \cup {event}, !.j = @ + 1]

\* VPEvent that leaves bFlag unset on a duplicate event: the inner loop
\* stops and the outer loop goes on to the next policy.
VPEvent_NoOuterBreak(f, eventMap, actionMap) ==
    IF f.j > Len(f.list)
    THEN [f EXCEPT !.i = @ + 1, !.list = <<>>, !.j = 1, !.pc = "loop"]
    ELSE LET event == f.list[f.j]
             action == f.policies[f.i].Action
         IN IF event \notin DOMAIN eventMap \/ ~eventMap[event]
            THEN BreakWith(f, PolicyError("invalid policy event", event, "", 0))
            ELSE IF action \notin DOMAIN actionMap \/ ~actionMap[action]
            THEN BreakWith(f, PolicyError("invalid policy action", "", action, 0))
            ELSE IF event \in f.policyEvents
            THEN [f EXCEPT !.err = Append(@, PolicyError("duplicate event across different policy", event, "", 0)),
                           !.i = @ + 1, !.list = <<>>, !.j = 1, !.pc = "loop"]
            ELSE [f EXCEPT !.policyEvents = @ \cup {event}, !.j = @ + 1]

\* VPEvent that records the event before it checks the Action.
VPEvent_RecordsBeforeAction(f, eventMap, actionMap) ==
    IF f.j > Len(f.list)
    THEN [f EXCEPT !.i = @ + 1, !.list = <<>>, !.j = 1, !.pc = "loop"]
    ELSE LET event == f.list[f.j]
             action == f.policies[f.i].Action
         IN IF event \notin DOMAIN eventMap \/ ~eventMap[event]
            THEN BreakWith(f, PolicyError("invalid policy event", event, "", 0))
            ELSE IF event \in f.policyEvents
            THEN BreakWith(f, PolicyError("duplicate event across different policy", event, "", 0))
            ELSE IF action \notin DOMAIN actionMap \/ ~actionMap[action]
            THEN BreakWith([f EXCEPT !.policyEvents = @ \cup {event}],
                           PolicyError("invalid policy action", "", action, 0))
            ELSE [f EXCEPT !.policyEvents = @ \cup {event}, !.j = @ + 1]

\* One pass through the inner loop over policyEventsList; when the list is
\* exhausted bFlag is false and the outer loop goes on to the next policy.
VPEvent(f, eventMap, actionMap) ==
    IF f.j > Len(f.list)
    THEN [f EXCEPT !.i = @ + 1, !.list = <<>>, !.j = 1, !.pc = "loop"]
    ELSE LET event == f.list[f.j]
             action == f.policies[f.i].Action
         IN IF event \notin DOMAIN eventMap \/ ~eventMap[event]
            THEN BreakWith(f, PolicyError("invalid policy event", event, "", 0))
            ELSE IF action \notin DOMAIN actionMap \/ ~actionMap[action]
            THEN BreakWith(f, PolicyError("invalid policy action", "", action, 0))
            ELSE IF event \in f.policyEvents
            THEN BreakWith(f, PolicyError("duplicate event across different policy", event, "", 0))
            ELSE [f EXCEPT !.policyEvents = @ \cup {event}, !.j = @ + 1]

\* VPWildcard that tolerates one event next to the wildcard.
VPWildcard_OffByOne(f) ==
    IF AnyEvent \in f.policyEvents /\ Cardinality(f.policyEvents) > 2
    THEN [f EXCEPT !.err = Append(@, PolicyError("if there's * here, no other policy should be here", "", "", 0)),
                   !.pc = "return"]
    ELSE [f EXCEPT !.pc = "return"]

\* The wildcard check after the loop.
VPWildcard(f) ==
    IF AnyEvent \in f.policyEvents /\ Cardinality(f.policyEvents) > 1
    THEN [f EXCEPT !.err = Append(@, PolicyError("if there's * here, no other policy should be here", "", "", 0)),
                   !.pc = "return"]
    ELSE [f EXCEPT !.pc = "return"]

VPReturn(f) == [f EXCEPT !.ret = f.err, !.pc = "done"]

ValidatePoliciesPolicy(g) ==
    /\ frame[g].kind = "validatePolicies"
    /\ frame[g].pc = "loop"
    /\ frame' = [frame EXCEPT ![g] = VPPolicy(@)]
    /\ UNCHANGED <<policyEventMap, policyActionMap, call>>

ValidatePoliciesEvent(g) ==
    /\ frame[g].kind = "validatePolicies"
    /\ frame[g].pc = "events"
    /\ frame' = [frame EXCEPT ![g] = VPEvent(@, policyEventMap, policyActionMap)]
    /\ UNCHANGED <<policyEventMap, policyActionMap, call>>

ValidatePoliciesWildcard(g) ==
    /\ frame[g].kind = "validatePolicies"
    /\ frame[g].pc = "wildcard"
    /\ frame' = [frame EXCEPT ![g] = VPWildcard(@)]
    /\ UNCHANGED <<policyEventMap, policyActionMap, call>>

ValidatePoliciesReturn(g) ==
    /\ frame[g].kind = "validatePolicies"
    /\ frame[g].pc = "return"
    /\ frame' = [frame EXCEPT ![g] = VPReturn(@)]
    /\ UNCHANGED <<policyEventMap, policyActionMap, call>>

\* The frame a validatePolicies call ends in when nothing else runs.
RECURSIVE RunValidatePolicies(_)
RunValidatePolicies(f) ==
    IF f.pc = "done" THEN f
    ELSE IF f.pc = "loop" THEN RunValidatePolicies(VPPolicy(f))
    ELSE IF f.pc = "events"
    THEN RunValidatePolicies(VPEvent(f, PolicyEventTable, PolicyActionTable))
    ELSE IF f.pc = "wildcard" THEN RunValidatePolicies(VPWildcard(f))
    ELSE RunValidatePolicies(VPReturn(f))

(***************************************************************************)
(* The policies the validator is run on.                                   *)
(***************************************************************************)
\* Event specifications: the Events slice and the Event field.
EventInputs ==
    { <<Slice(<<>>, 0), AnyEvent>>,
      <<Slice(<<>>, 0), PodFailedEvent>>,
      <<Slice(<<>>, 0), OutOfSyncEvent>>,
      <<Slice(<<PodFailedEvent>>, 1), OutOfSyncEvent>>,
      <<Slice(<<PodFailedEvent>>, 1), PodFailedEvent>>,
      <<Slice(<<PodEvictedEvent, AnyEvent>>, 2), "">>,
      <<Slice(<<PodEvictedEvent>>, 1), "">>,
      <<Slice(<<PodFailedEvent, OutOfSyncEvent>>, 1), PodEvictedEvent>>,
      <<Slice(<<UnknownName>>, 1), "">> }

EventPolicies ==
    { LifecyclePolicy(s[1], s[2], Nil, a) :
        s \in EventInputs, a \in {AbortJobAction, SyncJobAction} }
    \cup { LifecyclePolicy(Slice(<<>>, 0), PodFailedEvent, Nil, UnknownName) }

ExitCodePolicies ==
    { LifecyclePolicy(Slice(<<>>, 0), "", Ptr(c), a) :
        c \in {0, 1, 2}, a \in {AbortJobAction, SyncJobAction} }

OtherPolicies ==
    { LifecyclePolicy(Slice(<<>>, 0), "", Nil, AbortJobAction),
      LifecyclePolicy(Slice(<<>>, 0), PodFailedEvent, Ptr(1), AbortJobAction),
      LifecyclePolicy(Slice(<<AnyEvent>>, 1), "", Ptr(0), AbortJobAction) }

PolicyInputs == EventPolicies \cup ExitCodePolicies \cup OtherPolicies

SeqsUpTo(S, n) == UNION { [1..k -> S] : k \in 0..n }

PolicyLists == SeqsUpTo(PolicyInputs, MaxPolicies)

InitVP ==
    /\ policyEventMap = PolicyEventTable
    /\ policyActionMap = PolicyActionTable
    /\ \E policies \in PolicyLists :
          frame = [g \in Procs |-> IF g = "g1" THEN ValidatePoliciesFrame(policies)
                                   ELSE IdleFrame]
    /\ call = frame

NextVP ==
    \E g \in Procs :
        \/ ValidatePoliciesPolicy(g)
        \/ ValidatePoliciesEvent(g)
        \/ ValidatePoliciesWildcard(g)
        \/ ValidatePoliciesReturn(g)

SpecVP == InitVP /\ [][NextVP]_vars

(***************************************************************************)
(* getEventList as a call of its own.                                      *)
(***************************************************************************)
GetEventListAppend(g) ==
    /\ frame[g].kind = "getEventList"
    /\ frame[g].pc = "append"
    /\ LET policy == frame[g].policies[1]
       IN frame' = [frame EXCEPT ![g].policies[1].Events.arr = EventsArrayAfter(policy),
                                 ![g].list = Visible(policyEventsList(policy)),
                                 ![g].pc = "removeDuplicates"]
    /\ UNCHANGED <<policyEventMap, policyActionMap, call>>

GetEventListRemoveDuplicates(g) ==
    /\ frame[g].kind = "getEventList"
    /\ frame[g].pc = "removeDuplicates"
    /\ frame' = [frame EXCEPT ![g].ret = removeDuplicates(frame[g].list),
                              ![g].pc = "done"]
    /\ UNCHANGED <<policyEventMap, policyActionMap, call>>

MergeEvents == {AnyEvent, PodFailedEvent, OutOfSyncEvent}

\* Every Events slice of capacity at most MaxCap, with every Event field.
MergePolicies ==
    { LifecyclePolicy(Slice(arr, len), event, Nil, AbortJobAction) :
        arr \in SeqsUpTo(MergeEvents, MaxCap), len \in 0..MaxCap,
        event \in MergeEvents \cup {""} }

InitEL ==
    /\ policyEventMap = PolicyEventTable
    /\ policyActionMap = PolicyActionTable
    /\ \E policy \in MergePolicies :
          /\ policy.Events.len <= Len(policy.Events.arr)
          /\ frame = [g \in Procs |-> IF g = "g1" THEN GetEventListFrame(policy)
                                      ELSE IdleFrame]
    /\ call = frame

NextEL == \E g \in Procs : GetEventListAppend(g) \/ GetEventListRemoveDuplicates(g)

SpecEL == InitEL /\ [][NextEL]_vars

(***************************************************************************)
(* getValidEvents and getValidActions.  The order in which range visits    *)
(* the keys of a map is not fixed: every order is possible.                *)
(***************************************************************************)
\* GetValidEventsRange that drops the entries it finds not allowed.
GetValidEventsRange_Deletes(g) ==
    /\ frame[g].kind = "getValidEvents"
    /\ frame[g].pc = "range"
    /\ \E e \in DOMAIN policyEventMap \ frame[g].visited :
          /\ frame' = [frame EXCEPT ![g].visited = @ \cup {e},
                                    ![g].out = IF policyEventMap[e] THEN Append(@, e) ELSE @]
          /\ policyEventMap' = IF policyEventMap[e] THEN policyEventMap
                               ELSE [k \in DOMAIN policyEventMap \ {e} |-> policyEventMap[k]]
    /\ UNCHANGED <<policyActionMap, call>>

GetValidEventsRange(g) ==
    /\ frame[g].kind = "getValidEvents"
    /\ frame[g].pc = "range"
    /\ \E e \in DOMAIN policyEventMap \ frame[g].visited :
          frame' = [frame EXCEPT ![g].visited = @ \cup {e},
                                 ![g].out = IF policyEventMap[e] THEN Append(@, e) ELSE @]
    /\ UNCHANGED <<policyEventMap, policyActionMap, call>>

GetValidEventsReturn(g) ==
    /\ frame[g].kind = "getValidEvents"
    /\ frame[g].pc = "range"
    /\ DOMAIN policyEventMap \subseteq frame[g].visited
    /\ frame' = [frame EXCEPT ![g].ret = frame[g].out, ![g].pc = "done"]
    /\ UNCHANGED <<policyEventMap, policyActionMap, call>>

GetValidActionsRange(g) ==
    /\ frame[g].kind = "getValidActions"
    /\ frame[g].pc = "range"
    /\ \E a \in DOMAIN policyActionMap \ frame[g].visited :
          frame' = [frame EXCEPT ![g].visited = @ \cup {a},
                                 ![g].out = IF policyActionMap[a] THEN Append(@, a) ELSE @]
    /\ UNCHANGED <<policyEventMap, policyActionMap, call>>

GetValidActionsReturn(g) ==
    /\ frame[g].kind = "getValidActions"
    /\ frame[g].pc = "range"
    /\ DOMAIN policyActionMap \subseteq frame[g].visited
    /\ frame' = [frame EXCEPT ![g].ret = frame[g].out, ![g].pc = "done"]
    /\ UNCHANGED <<policyEventMap, policyActionMap, call>>

(***************************************************************************)
(* validateIO.                                                             *)
(***************************************************************************)
LowerAlphanumerics ==
    {"a", "b", "c", "d", "e", "f", "g", "h", "i", "j", "k", "l", "m", "n", "o",
     "p", "q", "r", "s", "t", "u", "v", "w", "x", "y", "z",
     "0", "1", "2", "3", "4", "5", "6", "7", "8", "9"}

DNS1123SubdomainMaxLength == 253

\* [a-z0-9]([-a-z0-9]*[a-z0-9])?
IsDNS1123Label(s) ==
    /\ Len(s) > 0
    /\ s[1] \in LowerAlphanumerics
    /\ s[Len(s)] \in LowerAlphanumerics
    /\ \A k \in 1..Len(s) : s[k] \in LowerAlphanumerics \cup {"-"}

\* The labels of a name: the parts between its dots.
RECURSIVE SplitLabels(_, _, _)
SplitLabels(name, k, cur) ==
    IF k > Len(name) THEN <<cur>>
    ELSE IF name[k] = "." THEN <<cur>> \o SplitLabels(name, k + 1, <<>>)
    ELSE SplitLabels(name, k + 1, Append(cur, name[k]))

\* validation.ValidatePersistentVolumeName: the messages of the DNS-1123
\* subdomain check, none when the name passes.
ValidatePersistentVolumeName(name) ==
    (IF Len(name) > DNS1123SubdomainMaxLength THEN <<"must be no more than 253 characters">> ELSE <<>>)
    \o (IF \A l \in Range(SplitLabels(name, 1, <<>>)) : IsDNS1123Label(l) THEN <<>>
        ELSE <<"a lowercase RFC 1123 subdomain must consist of lower case alphanumeric characters, '-' or '.'">>)

ReturnError(f, e) == [f EXCEPT !.ret = <<e>>, !.pc = "done"]

\* IOVolume that looks for a duplicated mount path after the claim checks.
IOVolume_DuplicateLast(f) ==
    IF f.i > Len(f.volumes) THEN [f EXCEPT !.pc = "return"]
    ELSE LET volume == f.volumes[f.i]
         IN IF Len(volume.MountPath) = 0
            THEN ReturnError(f, IOError("mountPath is required", "", <<>>))
            ELSE IF volume.VolumeClaim = Nil /\ volume.VolumeClaimName = <<>>
            THEN ReturnError(f, IOError("either VolumeClaim or VolumeClaimName must be specified", "", <<>>))
            ELSE IF Len(volume.VolumeClaimName) # 0 /\ volume.VolumeClaim # Nil
            THEN ReturnError(f, IOError("confilct", "", <<>>))
            ELSE IF Len(volume.VolumeClaimName) # 0
                    /\ Len(ValidatePersistentVolumeName(volume.VolumeClaimName)) > 0
            THEN ReturnError(f, IOError("invalid VolumeClaimName", "", volume.VolumeClaimName))
            ELSE IF volume.MountPath \in f.volumeMap
            THEN ReturnError(f, IOError("duplicated mountPath", volume.MountPath, <<>>))
            ELSE [f EXCEPT !.volumeMap = @ \cup {volume.MountPath}, !.i = @ + 1]

\* One pass through the loop over volumes.
IOVolume(f) ==
    IF f.i > Len(f.volumes) THEN [f EXCEPT !.pc = "return"]
    ELSE LET volume == f.volumes[f.i]
         IN IF Len(volume.MountPath) = 0
            THEN ReturnError(f, IOError("mountPath is required", "", <<>>))
            ELSE IF volume.MountPath \in f.volumeMap
            THEN ReturnError(f, IOError("duplicated mountPath", volume.MountPath, <<>>))
            ELSE IF volume.VolumeClaim = Nil /\ volume.VolumeClaimName = <<>>
            THEN ReturnError(f, IOError("either VolumeClaim or VolumeClaimName must be specified", "", <<>>))
            ELSE IF Len(volume.VolumeClaimName) # 0 /\ volume.VolumeClaim # Nil
            THEN ReturnError(f, IOError("confilct", "", <<>>))
            ELSE IF Len(volume.VolumeClaimName) # 0
                    /\ Len(ValidatePersistentVolumeName(volume.VolumeClaimName)) > 0
            THEN ReturnError(f, IOError("invalid VolumeClaimName", "", volume.VolumeClaimName))
            ELSE [f EXCEPT !.volumeMap = @ \cup {volume.MountPath}, !.i = @ + 1]

IOReturn(f) == [f EXCEPT !.ret = Nil, !.pc = "done"]

ValidateIOVolume(g) ==
    /\ frame[g].kind = "validateIO"
    /\ frame[g].pc = "loop"
    /\ frame' = [frame EXCEPT ![g] = IOVolume(@)]
    /\ UNCHANGED <<policyEventMap, policyActionMap, call>>

ValidateIOReturn(g) ==
    /\ frame[g].kind = "validateIO"
    /\ frame[g].pc = "return"
    /\ frame' = [frame EXCEPT ![g] = IOReturn(@)]
    /\ UNCHANGED <<policyEventMap, policyActionMap, call>>

RECURSIVE RunValidateIO(_)
RunValidateIO(f) ==
    IF f.pc = "done" THEN f
    ELSE IF f.pc = "loop" THEN RunValidateIO(IOVolume(f))
    ELSE RunValidateIO(IOReturn(f))

MountPathInputs == {"", "/data", "/logs"}

VolumeClaimInputs == {Nil, Ptr("pvcSpec")}

VolumeClaimNameInputs == {<<>>, <<"p", "v", "c">>, <<"P", "V">>}

VolumeInputs ==
    { VolumeSpec(m, c, n) :
        m \in MountPathInputs, c \in VolumeClaimInputs, n \in VolumeClaimNameInputs }

VolumeLists == SeqsUpTo(VolumeInputs, MaxVolumes)

InitIO ==
    /\ policyEventMap = PolicyEventTable
    /\ policyActionMap = PolicyActionTable
    /\ \E volumes \in VolumeLists :
          frame = [g \in Procs |-> IF g = "g1" THEN ValidateIOFrame(volumes)
                                   ELSE IdleFrame]
    /\ call = frame

NextIO == \E g \in Procs : ValidateIOVolume(g) \/ ValidateIOReturn(g)

SpecIO == InitIO /\ [][NextIO]_vars

(***************************************************************************)
(* Concurrent admission reviews: each goroutine runs one call on the data  *)
(* of its own request, in any interleaving with the other.                 *)
(***************************************************************************)
ConcurrentPolicyLists ==
    { <<>>,
      <<LifecyclePolicy(Slice(<<>>, 0), AnyEvent, Nil, AbortJobAction)>>,
      <<LifecyclePolicy(Slice(<<PodFailedEvent, OutOfSyncEvent>>, 1), PodEvictedEvent, Nil, AbortJobAction),
        LifecyclePolicy(Slice(<<AnyEvent, PodEvictedEvent>>, 2), "", Nil, AbortJobAction)>>,
      <<LifecyclePolicy(Slice(<<PodFailedEvent>>, 1), OutOfSyncEvent, Nil, SyncJobAction)>>,
      <<LifecyclePolicy(Slice(<<>>, 0), "", Ptr(1), SyncJobAction),
        LifecyclePolicy(Slice(<<>>, 0), "", Ptr(1), AbortJobAction)>> }

ConcurrentVolumeLists ==
    { <<VolumeSpec("/data", Ptr("pvcSpec"), <<>>), VolumeSpec("/data", Nil, <<"p", "v", "c">>)>>,
      <<VolumeSpec("/data", Nil, <<"p", "v", "c">>), VolumeSpec("/logs", Nil, <<"P", "V">>)>>,
      <<VolumeSpec("/logs", Ptr("pvcSpec"), <<>>)>> }

ValidatorFrames ==
    { ValidatePoliciesFrame(policies) : policies \in ConcurrentPolicyLists }
    \cup { ValidateIOFrame(volumes) : volumes \in ConcurrentVolumeLists }

EnumeratorFrames == {GetValidEventsFrame, GetValidActionsFrame}

InitC ==
    /\ policyEventMap = PolicyEventTable
    /\ policyActionMap = PolicyActionTable
    /\ \E f1 \in ValidatorFrames, f2 \in ValidatorFrames \cup EnumeratorFrames :
          frame = [g \in Procs |-> IF g = "g1" THEN f1 ELSE f2]
    /\ call = frame

NextC ==
    \E g \in Procs :
        \/ ValidatePoliciesPolicy(g)
        \/ ValidatePoliciesEvent(g)
        \/ ValidatePoliciesWildcard(g)
        \/ ValidatePoliciesReturn(g)
        \/ ValidateIOVolume(g)
        \/ ValidateIOReturn(g)
        \/ GetValidEventsRange(g)
        \/ GetValidEventsReturn(g)
        \/ GetValidActionsRange(g)
        \/ GetValidActionsReturn(g)

SpecC == InitC /\ [][NextC]_vars

(***************************************************************************)
(* Vocabulary of the properties, stated on the arguments of a call and not *)
(* on the locals of the validator.                                         *)
(***************************************************************************)
\* The call under test in the sequential specifications.
Arg == call["g1"]

Now == frame["g1"]

PoliciesDone == Now.kind = "validatePolicies" /\ Now.pc = "done"

HasEventSpec(p) == p.Event # "" \/ p.Events.len # 0

EventOnly(p) == HasEventSpec(p) /\ p.ExitCode = Nil

ExitCodeOnly(p) == ~HasEventSpec(p) /\ p.ExitCode # Nil

\* The events a policy cites, in the order Events then Event.
CitedSeq(p) == Visible(p.Events) \o (IF p.Event # "" THEN <<p.Event>> ELSE <<>>)

Cited(p) == Range(CitedSeq(p))

EventAllowed(e) == e \in DOMAIN PolicyEventTable /\ PolicyEventTable[e]

ActionAllowed(a) == a \in DOMAIN PolicyActionTable /\ PolicyActionTable[a]

HasEntry(error, kind) == \E k \in 1..Len(error) : error[k].kind = kind

WildcardKind == "if there's * here, no other policy should be here"

\* An event of policy k at which one of the three event rules fires.
EventFails(ps, k, e) ==
    \/ ~EventAllowed(e)
    \/ ~ActionAllowed(ps[k].Action)
    \/ \E m \in 1..(k - 1) : e \in Cited(ps[m])

\* A rule of the loop fires at policy k, all earlier policies being accepted.
LoopRuleFires(ps, k) ==
    \/ HasEventSpec(ps[k]) /\ ps[k].ExitCode # Nil
    \/ ~HasEventSpec(ps[k]) /\ ps[k].ExitCode = Nil
    \/ EventOnly(ps[k]) /\ \E e \in Cited(ps[k]) : EventFails(ps, k, e)
    \/ ExitCodeOnly(ps[k])
         /\ \/ ps[k].ExitCode[1] = 0
            \/ \E m \in 1..(k - 1) :
                  ExitCodeOnly(ps[m]) /\ ps[m].ExitCode[1] = ps[k].ExitCode[1]

Firing(ps) == {k \in 1..Len(ps) : LoopRuleFires(ps, k)}

\* The first policy at which a rule fires; Len(ps) + 1 when none does.
FirstFiring(ps) ==
    IF Firing(ps) = {} THEN Len(ps) + 1
    ELSE CHOOSE k \in Firing(ps) : \A m \in Firing(ps) : k <= m

(***************************************************************************)
(* C1: validatePolicies returns nil if and only if the list is well-formed *)
(* in the seven senses below; the empty list returns nil.                  *)
(***************************************************************************)
WellFormed(ps) ==
    LET allCited == UNION {Cited(ps[k]) : k \in 1..Len(ps)}
    IN /\ \A k \in 1..Len(ps) : HasEventSpec(ps[k]) # (ps[k].ExitCode # Nil)
       /\ \A k \in 1..Len(ps) :
             HasEventSpec(ps[k]) => \A e \in Cited(ps[k]) : EventAllowed(e)
       /\ \A k \in 1..Len(ps) : HasEventSpec(ps[k]) => ActionAllowed(ps[k].Action)
       /\ \A k, m \in 1..Len(ps) : k # m => Cited(ps[k]) \cap Cited(ps[m]) = {}
       /\ \A k \in 1..Len(ps) : ps[k].ExitCode # Nil => ps[k].ExitCode[1] # 0
       /\ \A k, m \in 1..Len(ps) :
             (k # m /\ ps[k].ExitCode # Nil /\ ps[m].ExitCode # Nil)
                => ps[k].ExitCode[1] # ps[m].ExitCode[1]
       /\ AnyEvent \in allCited => allCited = {AnyEvent}

\* C1: at return, the error is nil exactly when the argument list is
\* well-formed, and the empty list is accepted.
C1_NilIffWellFormed ==
    PoliciesDone =>
        /\ (Now.ret = Nil) <=> WellFormed(Arg.policies)
        /\ Arg.policies = <<>> => Now.ret = Nil

C1_Witness ==
    /\ PoliciesDone
    /\ Len(Arg.policies) = 2
    /\ EventOnly(Arg.policies[1])
    /\ ExitCodeOnly(Arg.policies[2])
    /\ Now.ret = Nil

(***************************************************************************)
(* C3: an event policy citing an event that is not allowed.                *)
(***************************************************************************)
\* The first policy is an event policy that cites an event not allowed.
FirstCitesForbidden ==
    /\ Len(Arg.policies) >= 1
    /\ Arg.policies[1].ExitCode = Nil
    /\ \E e \in Cited(Arg.policies[1]) : ~EventAllowed(e)

\* C3 as stated: whenever the first policy has no ExitCode and cites an event
\* that is not allowed, the returned error holds an 'invalid policy event'
\* entry, whatever the Action and the other events are.
C3_AlwaysInvalidEvent ==
    (PoliciesDone /\ FirstCitesForbidden) => HasEntry(Now.ret, "invalid policy event")

\* C3 amended: the error is non-nil; it holds an 'invalid policy event' entry
\* when the Action is allowed or the first event cited is itself not allowed,
\* and otherwise it holds 'invalid policy action' and no 'invalid policy
\* event' entry.
C3_InvalidEventUnlessActionFirst ==
    (PoliciesDone /\ FirstCitesForbidden) =>
        LET p == Arg.policies[1]
        IN /\ Now.ret # Nil
           /\ IF ActionAllowed(p.Action) \/ ~EventAllowed(CitedSeq(p)[1])
              THEN HasEntry(Now.ret, "invalid policy event")
              ELSE /\ Now.ret[1].kind = "invalid policy action"
                   /\ ~HasEntry(Now.ret, "invalid policy event")

C3_Witness ==
    /\ PoliciesDone
    /\ FirstCitesForbidden
    /\ ActionAllowed(Arg.policies[1].Action)
    /\ EventAllowed(CitedSeq(Arg.policies[1])[1])
    /\ HasEntry(Now.ret, "invalid policy event")

(***************************************************************************)
(* C4: the wildcard event together with any other event.                   *)
(***************************************************************************)
WildcardWithOthers(ps) ==
    /\ \E k \in 1..Len(ps) : AnyEvent \in Cited(ps[k])
    /\ \E m \in 1..Len(ps) : Cited(ps[m]) \ {AnyEvent} # {}

\* C4: a list in which some policy cites Any and some policy cites another
\* event is never accepted.
C4_WildcardWithOthersRejected ==
    (PoliciesDone /\ WildcardWithOthers(Arg.policies)) => Now.ret # Nil

C4_Witness ==
    /\ PoliciesDone
    /\ Len(Arg.policies) = 2
    /\ Cited(Arg.policies[1]) = {PodFailedEvent}
    /\ Cited(Arg.policies[2]) = {AnyEvent}
    /\ Len(Now.ret) = 1
    /\ Now.ret[1].kind = WildcardKind

(***************************************************************************)
(* C6: nothing after the first violating policy is examined.               *)
(***************************************************************************)
\* C6: when a loop rule fires, the returned error, the seen events and the
\* seen exit codes are those of the call on the prefix that ends with the
\* first violating policy, and the loop stands at that policy.
C6_StopsAtFirstViolation ==
    (PoliciesDone /\ Firing(Arg.policies) # {}) =>
        LET first == FirstFiring(Arg.policies)
            alone == RunValidatePolicies(
                         ValidatePoliciesFrame(SubSeq(Arg.policies, 1, first)))
        IN /\ Now.i = first
           /\ Now.ret = alone.ret
           /\ Now.policyEvents = alone.policyEvents
           /\ Now.exitCodes = alone.exitCodes

C6_Witness ==
    /\ PoliciesDone
    /\ Len(Arg.policies) = 2
    /\ FirstFiring(Arg.policies) = 1
    /\ EventOnly(Arg.policies[2])
    /\ Now.policyEvents = {}
    /\ Now.ret # Nil

(***************************************************************************)
(* C7: at most two causes.                                                 *)
(***************************************************************************)
\* C7: inside the loop the error holds at most one cause, none of them the
\* wildcard violation; the returned error holds at most two, and a second
\* one is the wildcard violation.
C7_AtMostTwoEntries ==
    Now.kind = "validatePolicies" =>
        /\ Len(Now.err) <= 2
        /\ Now.pc \in {"loop", "events", "wildcard"} =>
              /\ Len(Now.err) <= 1
              /\ ~HasEntry(Now.err, WildcardKind)
        /\ Len(Now.err) = 2 =>
              /\ Now.err[1].kind # WildcardKind
              /\ Now.err[2].kind = WildcardKind
        /\ Now.pc = "done" => Now.ret = Now.err

C7_Witness ==
    /\ PoliciesDone
    /\ Len(Now.ret) = 2
    /\ Now.ret[1].kind = "either event and exitCode should be specified"

(***************************************************************************)
(* C8: the wildcard check and the seen events it looks at.                 *)
(***************************************************************************)
\* The position in CitedSeq of the failing policy at which an event rule
\* fires, for a failing event policy.
FailingPosition(ps, k) ==
    CHOOSE n \in 1..Len(CitedSeq(ps[k])) :
        /\ EventFails(ps, k, CitedSeq(ps[k])[n])
        /\ \A m \in 1..(n - 1) : ~EventFails(ps, k, CitedSeq(ps[k])[m])

FailsAtEvent(ps, k) ==
    k <= Len(ps) /\ EventOnly(ps[k]) /\ \E e \in Cited(ps[k]) : EventFails(ps, k, e)

\* The events of the accepted policies, and those of the failing policy that
\* come before its failing event.
RecordedEvents(ps) ==
    LET first == FirstFiring(ps)
    IN UNION {Cited(ps[k]) : k \in 1..(first - 1)}
       \cup (IF FailsAtEvent(ps, first)
             THEN {CitedSeq(ps[first])[m] : m \in 1..(FailingPosition(ps, first) - 1)}
             ELSE {})

WildcardChecked == Now.kind = "validatePolicies" /\ Now.pc \in {"return", "done"}

WildcardAppendedExactly ==
    HasEntry(Now.err, WildcardKind)
        <=> (AnyEvent \in Now.policyEvents /\ Cardinality(Now.policyEvents) > 1)

\* C8 as stated: the wildcard violation is appended exactly when Any is seen
\* with another event; seen-events holds the recorded events, and holds
\* neither the failing event nor any event of a later policy.
C8_SeenExcludesFailingAndLater ==
    WildcardChecked =>
        LET ps == Arg.policies
            first == FirstFiring(ps)
        IN /\ WildcardAppendedExactly
           /\ RecordedEvents(ps) \subseteq Now.policyEvents
           /\ FailsAtEvent(ps, first) =>
                 CitedSeq(ps[first])[FailingPosition(ps, first)] \notin Now.policyEvents
           /\ \A k \in (first + 1)..Len(ps) : Cited(ps[k]) \cap Now.policyEvents = {}

\* C8 amended: the wildcard violation is appended exactly when Any is seen
\* with another event, and seen-events is exactly the set of recorded events:
\* the failing event and the events of later policies are in it only when an
\* accepted policy, or the failing policy before its failing event, cites
\* them too.
C8_SeenIsRecorded ==
    WildcardChecked =>
        /\ WildcardAppendedExactly
        /\ Now.policyEvents = RecordedEvents(Arg.policies)

C8_Witness ==
    /\ PoliciesDone
    /\ FirstFiring(Arg.policies) = 2
    /\ FailsAtEvent(Arg.policies, 2)
    /\ FailingPosition(Arg.policies, 2) = 2
    /\ Now.policyEvents = {AnyEvent, PodFailedEvent}
    /\ HasEntry(Now.ret, WildcardKind)

(***************************************************************************)
(* C10: the Action of an exit-code policy.                                 *)
(***************************************************************************)
ActionValues == DOMAIN PolicyActionTable \cup {UnknownName}

\* C10: putting any other Action on an exit-code policy leaves the returned
\* error as it is, and exit-code policies with distinct non-zero codes are
\* accepted whatever their actions.
C10_ExitCodeActionIgnored ==
    PoliciesDone =>
        LET ps == Arg.policies
        IN /\ \A k \in 1..Len(ps) : \A a \in ActionValues :
                 ExitCodeOnly(ps[k]) =>
                    RunValidatePolicies(
                        ValidatePoliciesFrame([ps EXCEPT ![k].Action = a])).ret = Now.ret
           /\ ( /\ \A k \in 1..Len(ps) : ExitCodeOnly(ps[k]) /\ ps[k].ExitCode[1] # 0
                /\ \A k, m \in 1..Len(ps) :
                      k # m => ps[k].ExitCode[1] # ps[m].ExitCode[1] )
              => Now.ret = Nil

C10_Witness ==
    /\ PoliciesDone
    /\ Len(Arg.policies) = 2
    /\ \A k \in 1..2 : ExitCodeOnly(Arg.policies[k])
    /\ Arg.policies[1].Action = SyncJobAction
    /\ Arg.policies[2].Action = AbortJobAction
    /\ Now.ret = Nil

(***************************************************************************)
(* C2: validateIO returns the first violation.                             *)
(***************************************************************************)
IODone == Now.kind = "validateIO" /\ Now.pc = "done"

\* The rule that fires for volume k, tried in the order of the five rules;
\* nil when none fires.
VolumeRule(volumes, k) ==
    LET v == volumes[k]
    IN IF v.MountPath = ""
       THEN <<IOError("mountPath is required", "", <<>>)>>
       ELSE IF \E m \in 1..(k - 1) : volumes[m].MountPath = v.MountPath
       THEN <<IOError("duplicated mountPath", v.MountPath, <<>>)>>
       ELSE IF v.VolumeClaim = Nil /\ v.VolumeClaimName = <<>>
       THEN <<IOError("either VolumeClaim or VolumeClaimName must be specified", "", <<>>)>>
       ELSE IF v.VolumeClaim # Nil /\ v.VolumeClaimName # <<>>
       THEN <<IOError("confilct", "", <<>>)>>
       ELSE IF v.VolumeClaim = Nil /\ ValidatePersistentVolumeName(v.VolumeClaimName) # <<>>
       THEN <<IOError("invalid VolumeClaimName", "", v.VolumeClaimName)>>
       ELSE Nil

Violating(volumes) == {k \in 1..Len(volumes) : VolumeRule(volumes, k) # Nil}

FirstViolation(volumes) ==
    IF Violating(volumes) = {} THEN Nil
    ELSE VolumeRule(volumes,
                    CHOOSE k \in Violating(volumes) : \A m \in Violating(volumes) : k <= m)

\* C2: the error returned is that of the first volume, in list order, for
\* which a rule fires, and of the first rule that fires for it; nil when no
\* rule fires for any volume.
C2_FirstViolationOnly ==
    IODone => /\ Now.ret = FirstViolation(Arg.volumes)
              /\ Len(Now.ret) <= 1
              /\ Arg.volumes = <<>> => Now.ret = Nil

C2_Witness ==
    /\ IODone
    /\ Len(Arg.volumes) = 3
    /\ Arg.volumes[2].MountPath = Arg.volumes[1].MountPath
    /\ Arg.volumes[2].VolumeClaim = Nil /\ Arg.volumes[2].VolumeClaimName = <<>>
    /\ Arg.volumes[3].MountPath = ""
    /\ Now.ret = <<IOError("duplicated mountPath", Arg.volumes[1].MountPath, <<>>)>>

(***************************************************************************)
(* C9: getEventList.                                                       *)
(***************************************************************************)
EventListDone == Now.kind = "getEventList" /\ Now.pc = "done"

\* The places of s that hold a value for the first time.
FirstPlaces(s) == {k \in 1..Len(s) : \A m \in 1..(k - 1) : s[m] # s[k]}

\* s with every repeated value removed, first occurrences kept in order.
KeepsFirstOccurrences(r, s) ==
    /\ Len(r) = Cardinality(FirstPlaces(s))
    /\ \A k \in FirstPlaces(s) :
          r[Cardinality({m \in FirstPlaces(s) : m <= k})] = s[k]

\* C9: the result is Events followed by Event without the repeated values,
\* first occurrences kept in order; it has no duplicates and the values of
\* that concatenation; Event and the visible part of Events are unchanged.
C9_MergedUniqueInOrder ==
    EventListDone =>
        LET before == Arg.policies[1]
            after == Now.policies[1]
            all == CitedSeq(before)
        IN /\ KeepsFirstOccurrences(Now.ret, all)
           /\ \A a, b \in 1..Len(Now.ret) : a # b => Now.ret[a] # Now.ret[b]
           /\ Range(Now.ret) = Range(all)
           /\ after.Event = before.Event
           /\ after.Events.len = before.Events.len
           /\ Visible(after.Events) = Visible(before.Events)

C9_Witness ==
    /\ EventListDone
    /\ Arg.policies[1].Events = Slice(<<PodFailedEvent, PodFailedEvent, OutOfSyncEvent>>, 2)
    /\ Arg.policies[1].Event = AnyEvent
    /\ Now.policies[1].Events.arr = <<PodFailedEvent, PodFailedEvent, AnyEvent>>
    /\ Now.ret = <<PodFailedEvent, AnyEvent>>

(***************************************************************************)
(* C5: concurrent calls.                                                   *)
(***************************************************************************)
Allowed(table) == {k \in DOMAIN table : table[k]}

\* The result of the call of goroutine g is one the call gives when it runs
\* alone; for the enumerators that is the allowed keys in any order.
SameAsAlone(g) ==
    /\ frame[g].kind = "validatePolicies" =>
          frame[g].ret = RunValidatePolicies(call[g]).ret
    /\ frame[g].kind = "validateIO" => frame[g].ret = RunValidateIO(call[g]).ret
    /\ frame[g].kind = "getValidEvents" =>
          /\ Range(frame[g].ret) = Allowed(PolicyEventTable)
          /\ Len(frame[g].ret) = Cardinality(Allowed(PolicyEventTable))
    /\ frame[g].kind = "getValidActions" =>
          /\ Range(frame[g].ret) = Allowed(PolicyActionTable)
          /\ Len(frame[g].ret) = Cardinality(Allowed(PolicyActionTable))

\* C5: in every interleaving the two tables keep their initial contents and
\* every finished call has the result it has when run alone.
C5_TablesReadOnlyCallsIndependent ==
    /\ policyEventMap = PolicyEventTable
    /\ policyActionMap = PolicyActionTable
    /\ \A g \in Procs : frame[g].pc = "done" => SameAsAlone(g)

C5_Witness ==
    /\ frame["g1"].kind = "validatePolicies"
    /\ frame["g1"].pc = "done"
    /\ Len(frame["g1"].ret) = 2
    /\ frame["g2"].kind = "getValidEvents"
    /\ frame["g2"].pc = "done"
    /\ frame["g2"].ret[1] = TaskCompletedEvent

=============================================================================
